---- MODULE Spec2Model ----
(***************************************************************************)
(* Verification model of the AP-class lecture repository.                  *)
(*                                                                         *)
(* Part 1: the quota tracker of full_files/c11_heap.rs (LimitTracker, the  *)
(* Messenger trait and the recording MockMessenger of `workingtests`).     *)
(*                                                                         *)
(* The lesson catalog / runner / reporter that spec.md describes has no    *)
(* counterpart in the sources: main.rs is an argument-less function whose  *)
(* body is entirely commented out, and no file defines register, runAll,   *)
(* runLesson, runUnit or RunResult.  Nothing of it is modelled here.       *)
(*                                                                         *)
(* Part 2: the Counter iterator of full_files/c12_fp.rs.                   *)
(* Part 3: i32 arithmetic: okadd / crapadd of c01_basic.rs and the         *)
(* AveragedCollection of full_files/c10_OOP.rs.                            *)
(* Part 4: reference counting in full_files/c11_heap.rs: NaiveRcWithCell   *)
(* and the std::rc::Rc walk-through of example_rc.                         *)
(*                                                                         *)
(* Every example is an independent function; a run picks one of them from  *)
(* the "start" state, as main.rs does by commenting calls in and out.      *)
(***************************************************************************)
EXTENDS Integers, Naturals, Sequences, FiniteSets, TLC

(* ---- bounds of the exploration ---- *)
MaxMax == 12
MaxValue == 13
MaxCalls == 3

(* ---- literals of workingtests::it_sends_an_over_75_percent_warning_message ---- *)
TestMax == 100
TestValue == 80

VARIABLES
  pc,             \* "start", "tracking" (a LimitTracker is alive), "test_done"
  limit_tracker,  \* the LimitTracker struct: [value, max]; NoTracker before new()
  sent_messages,  \* MockMessenger.sent_messages: RefCell<Vec<String>>
  calls,          \* history: the arguments of the set_value calls made so far
  test_result,    \* outcome of the assert_eq! of the test: "not_run", "passed", "panicked"
  counter,        \* calling_next_directly: the Counter struct [count]
  returned,       \* history: what the successive counter.next() calls returned
  zip_a,          \* using_other_iterator_trait_methods: the first Counter
  zip_b,          \* ... the second one inside Skip: [iter, n]
  zip_sum,        \* ... the accumulator of sum()
  zip_pairs,      \* history: the pairs zip has produced
  overflow_checks,\* the build profile: TRUE = arithmetic overflow panics (debug),
                  \* FALSE = it wraps (release)
  fn_args,        \* okadd / crapadd: the arguments of the call
  fn_result,      \* ... and its outcome [panic, val]
  collection,     \* the AveragedCollection struct [list, average]
  got_average,    \* what the latest get_average() returned
  handles,        \* the NaiveRcWithCell values alive, in order of creation
  rc_strong,      \* example_rc: strong count of the allocation `a` points to
  rc_owners,      \* ... the live variables holding an Rc to it
  rc_printed      \* ... the counts printed so far

ltVars == <<limit_tracker, sent_messages, calls, test_result>>
fpVars == <<counter, returned, zip_a, zip_b, zip_sum, zip_pairs>>
arVars == <<fn_args, fn_result, collection, got_average>>
rcVars == <<handles, rc_strong, rc_owners, rc_printed>>
vars == <<pc, ltVars, fpVars, overflow_checks, arVars, rcVars>>

NoTracker == [value |-> 0 - 1, max |-> 0 - 1]

(* ---- f64 arithmetic as used by set_value ----                           *)
(* `x as f64` is exact for every usize below 2^53, and every number of the *)
(* model is far below that; the quotient of two such numbers, rounded to   *)
(* nearest, compares against the literals 1.0, 0.9 and 0.75 exactly as the *)
(* rational quotient does as long as the divisor is below 2^50.  A float   *)
(* is therefore kept as a fraction, with the two IEEE specials a division  *)
(* by zero produces.                                                       *)
F64Div(a, b) ==
  IF b = 0
    THEN IF a = 0 THEN [kind |-> "nan", num |-> 0, den |-> 1]
                  ELSE [kind |-> "inf", num |-> 1, den |-> 0]
    ELSE [kind |-> "fin", num |-> a, den |-> b]

\* p >= n/d on f64: false for NaN, true for +inf
F64Ge(p, n, d) ==
  CASE p.kind = "nan" -> FALSE
    [] p.kind = "inf" -> TRUE
    [] OTHER -> p.num * d >= n * p.den

MsgError == "Error: You are over your quota!"
MsgUrgent == "Urgent warning: You've used up over 90% of your quota!"
MsgWarning == "Warning: You've used up over 75% of your quota!"

\* MockMessenger::new
MockMessenger_new == << >>

\* <MockMessenger as Messenger>::send : push the message on the recorded vector
send(messages, msg) == Append(messages, msg)

\* LimitTracker::new
LimitTracker_new(m) == [value |-> 0, max |-> m]

\* let percentage_of_max = self.value as f64 / self.max as f64;
percentage_of_max(self) == F64Div(self.value, self.max)

\* mutant: the 75% threshold taken strictly
set_value_send_strict(p, messages) ==
  IF F64Ge(p, 1, 1) THEN send(messages, MsgError)
  ELSE IF F64Ge(p, 9, 10) THEN send(messages, MsgUrgent)
  ELSE IF F64Ge(p, 3, 4) /\ ~(p.kind = "fin" /\ 4 * p.num = 3 * p.den)
    THEN send(messages, MsgWarning)
  ELSE messages

\* the if / else if chain of set_value: what the messenger holds afterwards
set_value_send(p, messages) ==
  IF F64Ge(p, 1, 1) THEN send(messages, MsgError)
  ELSE IF F64Ge(p, 9, 10) THEN send(messages, MsgUrgent)
  ELSE IF F64Ge(p, 3, 4) THEN send(messages, MsgWarning)
  ELSE messages

\* self.value = value;
set_value_store(self, value) == [self EXCEPT !.value = value]

LTInit ==
  /\ limit_tracker = NoTracker
  /\ sent_messages = << >>
  /\ calls = << >>
  /\ test_result = "not_run"

\* let m = MockMessenger::new(); let mut t = LimitTracker::new(&m, max);
New(m) ==
  /\ pc = "start"
  /\ pc' = "tracking"
  /\ limit_tracker' = LimitTracker_new(m)
  /\ sent_messages' = MockMessenger_new
  /\ UNCHANGED <<calls, test_result, fpVars, overflow_checks, arVars, rcVars>>

\* t.set_value(v)
SetValue(v) ==
  /\ pc = "tracking"
  /\ Len(calls) < MaxCalls
  /\ limit_tracker' = set_value_store(limit_tracker, v)
  /\ sent_messages' = set_value_send(percentage_of_max(limit_tracker'), sent_messages)
  /\ calls' = Append(calls, v)
  /\ UNCHANGED <<pc, test_result, fpVars, overflow_checks, arVars, rcVars>>

\* workingtests::it_sends_an_over_75_percent_warning_message, up to its assert_eq!
Test ==
  /\ pc = "start"
  /\ pc' = "test_done"
  /\ LET t == set_value_store(LimitTracker_new(TestMax), TestValue)
         msgs == set_value_send(percentage_of_max(t), MockMessenger_new)
     IN /\ limit_tracker' = t
        /\ sent_messages' = msgs
        /\ test_result' = IF Len(msgs) = 1 THEN "passed" ELSE "panicked"
  /\ calls' = <<TestValue>>
  /\ UNCHANGED <<fpVars, overflow_checks, arVars, rcVars>>

LTNext ==
  \/ \E m \in 0..MaxMax : New(m)
  \/ \E v \in 0..MaxValue : SetValue(v)
  \/ Test

(* ======================= c12_fp.rs: Counter ========================== *)
MaxNextCalls == 7

\* Option<u32>: Some(n) is the one-element sequence, None the empty one
Some(n) == <<n>>
None == << >>

\* the bound in `if self.count < 5`
CounterLimit == 5

\* Counter::new
Counter_new == [count |-> 0]

\* mutant: the bound tested with <=
Counter_next_inclusive(self) ==
  IF self.count <= CounterLimit
    THEN [self |-> [count |-> self.count + 1], ret |-> Some(self.count + 1)]
    ELSE [self |-> self, ret |-> None]

\* <Counter as Iterator>::next : the updated counter and the returned option
Counter_next(self) ==
  IF self.count < CounterLimit
    THEN [self |-> [count |-> self.count + 1], ret |-> Some(self.count + 1)]
    ELSE [self |-> self, ret |-> None]

\* Iterator::nth(k) on a Counter: discard k elements, return the next one
RECURSIVE Counter_nth(_, _)
Counter_nth(self, k) ==
  LET r == Counter_next(self)
  IN IF k = 0 \/ r.ret = None THEN r ELSE Counter_nth(r.self, k - 1)

\* Counter::new().skip(1)
Skip_new(iter, n) == [iter |-> iter, n |-> n]

\* mutant: skip that forgets to discard
Skip_next_noskip(self) ==
  LET r == Counter_next(self.iter)
  IN [self |-> [iter |-> r.self, n |-> 0], ret |-> r.ret]

\* <Skip<Counter> as Iterator>::next : the first call discards n elements
Skip_next(self) ==
  LET r == IF self.n > 0 THEN Counter_nth(self.iter, self.n)
                         ELSE Counter_next(self.iter)
  IN [self |-> [iter |-> r.self, n |-> 0], ret |-> r.ret]

\* <Zip<Counter, Skip<Counter>> as Iterator>::next : a.next()? then b.next()?
Zip_next(a, b) ==
  LET x == Counter_next(a)
  IN IF x.ret = None THEN [a |-> x.self, b |-> b, ret |-> None]
     ELSE LET y == Skip_next(b)
          IN IF y.ret = None THEN [a |-> x.self, b |-> y.self, ret |-> None]
             ELSE [a |-> x.self, b |-> y.self, ret |-> Some(<<x.ret[1], y.ret[1]>>)]

\* .map(|(a, b)| a * b).filter(|x| x % 3 == 0) : what one pair adds to the sum
MapFilter(pair) ==
  LET x == pair[1] * pair[2]
  IN IF x % 3 = 0 THEN x ELSE 0

FPInit ==
  /\ counter = Counter_new
  /\ returned = << >>
  /\ zip_a = Counter_new
  /\ zip_b = Skip_new(Counter_new, 0)
  /\ zip_sum = 0
  /\ zip_pairs = << >>

\* calling_next_directly: let mut counter = Counter::new();
StartCounter ==
  /\ pc = "start"
  /\ pc' = "counting"
  /\ counter' = Counter_new
  /\ UNCHANGED <<ltVars, returned, zip_a, zip_b, zip_sum, zip_pairs, overflow_checks, arVars, rcVars>>

\* counter.next()
CallNext ==
  /\ pc = "counting"
  /\ Len(returned) < MaxNextCalls
  /\ LET r == Counter_next(counter)
     IN /\ counter' = r.self
        /\ returned' = Append(returned, r.ret)
  /\ UNCHANGED <<pc, ltVars, zip_a, zip_b, zip_sum, zip_pairs, overflow_checks, arVars, rcVars>>

\* using_other_iterator_trait_methods: Counter::new().zip(Counter::new().skip(1))
StartZip ==
  /\ pc = "start"
  /\ pc' = "zipping"
  /\ zip_a' = Counter_new
  /\ zip_b' = Skip_new(Counter_new, 1)
  /\ zip_sum' = 0
  /\ UNCHANGED <<ltVars, counter, returned, zip_pairs, overflow_checks, arVars, rcVars>>

\* one turn of the loop inside sum(): pull a pair, map, filter, accumulate
ZipStep ==
  /\ pc = "zipping"
  /\ LET z == Zip_next(zip_a, zip_b)
     IN /\ zip_a' = z.a
        /\ zip_b' = z.b
        /\ IF z.ret = None
             THEN /\ pc' = "zip_done"
                  /\ UNCHANGED <<zip_sum, zip_pairs>>
             ELSE /\ pc' = "zipping"
                  /\ zip_sum' = zip_sum + MapFilter(z.ret[1])
                  /\ zip_pairs' = Append(zip_pairs, z.ret[1])
  /\ UNCHANGED <<ltVars, counter, returned, overflow_checks, arVars, rcVars>>

FPNext ==
  \/ StartCounter
  \/ CallNext
  \/ StartZip
  \/ ZipStep

(* ===================== i32 arithmetic ================================ *)
MaxArg == 5
MaxAdds == 3

I32Max == 2147483647
I32Min == (0 - 2147483647) - 1

\* the i32 values the calls are tried on: small ones and the ends of the range
I32Inputs == ((0 - MaxArg)..MaxArg) \cup
  {I32Min, I32Min + 1, 0 - 1073741824, 1073741824, I32Max - 1, I32Max}

Panicked == [panic |-> TRUE, val |-> 0]
Returned(v) == [panic |-> FALSE, val |-> v]

\* x + y leaves the i32 range (tested without leaving it)
AddOverflows(x, y) ==
  \/ (y > 0 /\ x > I32Max - y)
  \/ (y < 0 /\ x < I32Min - y)

\* x + y modulo 2^32, for an overflowing pair
WrappedAdd(x, y) ==
  IF y > 0 THEN (x + I32Min) + (y + I32Min)
           ELSE (x - I32Min) + (y - I32Min)

\* the `+` of i32: "attempt to add with overflow" panic when overflow checks
\* are on, two's complement wrap-around when they are off
i32_add(x, y, checks) ==
  IF AddOverflows(x, y)
    THEN IF checks THEN Panicked ELSE Returned(WrappedAdd(x, y))
    ELSE Returned(x + y)

\* mutant: okadd with crapadd's body
okadd_doubling(x, y, checks) == i32_add(x, x, checks)

\* testfuns::okadd
okadd(x, y, checks) == i32_add(x, y, checks)

\* mutant: crapadd that uses its second argument
crapadd_using_y(x, y, checks) == i32_add(x, y, checks)

\* testfuns::crapadd
crapadd(x, y, checks) == i32_add(x, x, checks)

\* let total: i32 = self.list.iter().sum();
RECURSIVE iter_sum(_, _, _)
iter_sum(list, acc, checks) ==
  IF list = << >> THEN Returned(acc)
  ELSE LET r == i32_add(acc, Head(list), checks)
       IN IF r.panic THEN Panicked ELSE iter_sum(Tail(list), r.val, checks)

\* AveragedCollection::update_average, for a total that did not panic
update_average(self, total) ==
  [self EXCEPT !.average = F64Div(total, Len(self.list))]

\* AveragedCollection::get_average
get_average(self) == self.average

ARInit ==
  /\ fn_args = << >>
  /\ fn_result = Returned(0)
  /\ collection = [list |-> << >>, average |-> F64Div(0, 1)]
  /\ got_average = F64Div(0, 1)

\* okadd(x, y)
CallOkadd(x, y) ==
  /\ pc = "start"
  /\ pc' = "okadd_done"
  /\ fn_args' = <<x, y>>
  /\ fn_result' = okadd(x, y, overflow_checks)
  /\ UNCHANGED <<ltVars, fpVars, overflow_checks, collection, got_average, rcVars>>

\* crapadd(x, y)
CallCrapadd(x, y) ==
  /\ pc = "start"
  /\ pc' = "crapadd_done"
  /\ fn_args' = <<x, y>>
  /\ fn_result' = crapadd(x, y, overflow_checks)
  /\ UNCHANGED <<ltVars, fpVars, overflow_checks, collection, got_average, rcVars>>

\* an empty AveragedCollection comes into being
StartCollection ==
  /\ pc = "start"
  /\ pc' = "averaging"
  /\ collection' = [list |-> << >>, average |-> F64Div(0, 1)]
  /\ UNCHANGED <<ltVars, fpVars, overflow_checks, fn_args, fn_result, got_average, rcVars>>

\* collection.add(value): push, then update_average; a panic inside the sum
\* unwinds with the value pushed and the average not updated
Add(value) ==
  /\ pc = "averaging"
  /\ Len(collection.list) < MaxAdds
  /\ LET pushed == [collection EXCEPT !.list = Append(@, value)]
         total == iter_sum(pushed.list, 0, overflow_checks)
     IN IF total.panic
          THEN /\ pc' = "panicked"
               /\ collection' = pushed
          ELSE /\ pc' = "averaging"
               /\ collection' = update_average(pushed, total.val)
  /\ UNCHANGED <<ltVars, fpVars, overflow_checks, fn_args, fn_result, got_average, rcVars>>

\* collection.get_average()
GetAverage ==
  /\ pc = "averaging"
  /\ got_average' = get_average(collection)
  /\ UNCHANGED <<pc, ltVars, fpVars, overflow_checks, fn_args, fn_result, collection, rcVars>>

ARNext ==
  \/ \E x, y \in I32Inputs : CallOkadd(x, y)
  \/ \E x, y \in I32Inputs : CallCrapadd(x, y)
  \/ StartCollection
  \/ \E v \in I32Inputs : Add(v)
  \/ GetAverage

(* ===================== reference counting ============================ *)
MaxHandles == 4

\* NaiveRcWithCell::new
NaiveRcWithCell_new(inner) == [inner_value |-> inner, references |-> 1]

\* NaiveRcWithCell::references
references(self) == self.references

\* <NaiveRcWithCell as Clone>::clone : the receiver's cell is incremented and
\* the new value gets its own Cell holding a copy of the incremented number
NaiveRcWithCell_clone(self) ==
  LET bumped == [self EXCEPT !.references = @ + 1]
  IN [self |-> bumped,
      new |-> [inner_value |-> bumped.inner_value, references |-> bumped.references]]

\* Rc::new : one strong reference
Rc_new == 1

\* Rc::clone : one more strong reference
Rc_clone(strong) == strong + 1

\* mutant: an owner going out of scope leaves the count alone
Rc_drop_leaking(strong) == strong

\* <Rc as Drop>::drop : one strong reference less
Rc_drop(strong) == strong - 1

\* Rc::strong_count(&a)
Rc_strong_count(strong) == strong

RCInit ==
  /\ handles = << >>
  /\ rc_strong = 0
  /\ rc_owners = {}
  /\ rc_printed = << >>

\* let wrapped = NaiveRcWithCell::new("Hello!");
StartNaiveRc ==
  /\ pc = "start"
  /\ pc' = "cloning"
  /\ handles' = <<NaiveRcWithCell_new("Hello!")>>
  /\ UNCHANGED <<ltVars, fpVars, overflow_checks, arVars, rc_strong, rc_owners, rc_printed>>

\* let h = handles[i].clone();
CloneHandle(i) ==
  /\ pc = "cloning"
  /\ Len(handles) < MaxHandles
  /\ i \in DOMAIN handles
  /\ LET c == NaiveRcWithCell_clone(handles[i])
     IN handles' = Append([handles EXCEPT ![i] = c.self], c.new)
  /\ UNCHANGED <<pc, ltVars, fpVars, overflow_checks, arVars, rc_strong, rc_owners, rc_printed>>

\* example_rc: let a = Rc::new(RcCons(5, ...)); println!(strong_count)
RcCreateA ==
  /\ pc = "start"
  /\ pc' = "rc_a"
  /\ rc_strong' = Rc_new
  /\ rc_owners' = {"a"}
  /\ rc_printed' = <<Rc_strong_count(rc_strong')>>
  /\ UNCHANGED <<ltVars, fpVars, overflow_checks, arVars, handles>>

\* let b = RcCons(3, Rc::clone(&a)); println!(strong_count)
RcCreateB ==
  /\ pc = "rc_a"
  /\ pc' = "rc_b"
  /\ rc_strong' = Rc_clone(rc_strong)
  /\ rc_owners' = rc_owners \cup {"b"}
  /\ rc_printed' = Append(rc_printed, Rc_strong_count(rc_strong'))
  /\ UNCHANGED <<ltVars, fpVars, overflow_checks, arVars, handles>>

\* { let c = RcCons(4, Rc::clone(&a)); println!(strong_count)
RcCreateC ==
  /\ pc = "rc_b"
  /\ pc' = "rc_c"
  /\ rc_strong' = Rc_clone(rc_strong)
  /\ rc_owners' = rc_owners \cup {"c"}
  /\ rc_printed' = Append(rc_printed, Rc_strong_count(rc_strong'))
  /\ UNCHANGED <<ltVars, fpVars, overflow_checks, arVars, handles>>

\* } c goes out of scope; println!(strong_count)
RcEndBlock ==
  /\ pc = "rc_c"
  /\ pc' = "rc_after_c"
  /\ rc_strong' = Rc_drop(rc_strong)
  /\ rc_owners' = rc_owners \ {"c"}
  /\ rc_printed' = Append(rc_printed, Rc_strong_count(rc_strong'))
  /\ UNCHANGED <<ltVars, fpVars, overflow_checks, arVars, handles>>

\* the function returns: b, then a, go out of scope
RcReturn ==
  /\ pc = "rc_after_c"
  /\ pc' = "rc_done"
  /\ rc_strong' = Rc_drop(Rc_drop(rc_strong))
  /\ rc_owners' = rc_owners \ {"a", "b"}
  /\ UNCHANGED <<ltVars, fpVars, overflow_checks, arVars, handles, rc_printed>>

RCNext ==
  \/ StartNaiveRc
  \/ \E i \in 1..MaxHandles : CloneHandle(i)
  \/ RcCreateA
  \/ RcCreateB
  \/ RcCreateC
  \/ RcEndBlock
  \/ RcReturn

Init ==
  /\ pc = "start"
  /\ overflow_checks \in BOOLEAN
  /\ LTInit
  /\ FPInit
  /\ ARInit
  /\ RCInit

Next ==
  \/ LTNext
  \/ FPNext
  \/ ARNext
  \/ RCNext

Spec == Init /\ [][Next]_vars

TypeOK ==
  /\ pc \in {"start", "tracking", "test_done", "counting", "zipping", "zip_done",
            "okadd_done", "crapadd_done", "averaging", "panicked",
            "cloning", "rc_a", "rc_b", "rc_c", "rc_after_c", "rc_done"}
  /\ test_result \in {"not_run", "passed", "panicked"}
  /\ sent_messages \in Seq({MsgError, MsgUrgent, MsgWarning})

(* ---- C9 ---- *)
\* the calls made so far whose value is at least 75% of max
OverThreeQuarters == {i \in DOMAIN calls : 4 * calls[i] >= 3 * limit_tracker.max}

\* C9: for a LimitTracker with max > 0 and a recording messenger, after any
\* sequence of set_value calls the messenger holds exactly one message per
\* call whose value was at least 75% of max, and none for the other calls.
C9_OneMessagePerCallOver75 ==
  (pc # "start" /\ limit_tracker.max > 0)
    => Len(sent_messages) = Cardinality(OverThreeQuarters)

\* C9 witness: max 12 and the calls 3 (25%), 9 (exactly 75%), 12 (100%):
\* two of the three calls left a message.
C9_Witness ==
  /\ pc = "tracking"
  /\ limit_tracker.max = 12
  /\ calls = <<3, 9, 12>>
  /\ Len(sent_messages) = 2

(* ---- C10 ---- *)
\* the messages the latest set_value call pushed
NewlySent == SubSeq(sent_messages', Len(sent_messages) + 1, Len(sent_messages'))

\* C10: every set_value(v) stores v and sends exactly the message of the
\* highest threshold reached: v >= max only the quota error, 90% <= v/max <
\* 100% only the urgent warning, 75% <= v/max < 90% only the warning.
C10_HighestThresholdMessage ==
  [][(pc = "tracking" /\ Len(calls') = Len(calls) + 1) =>
       LET v == calls'[Len(calls')]
           m == limit_tracker.max
       IN /\ limit_tracker'.value = v
          /\ (v >= m => NewlySent = <<MsgError>>)
          /\ (v < m /\ 10 * v >= 9 * m => NewlySent = <<MsgUrgent>>)
          /\ (10 * v < 9 * m /\ 4 * v >= 3 * m => NewlySent = <<MsgWarning>>)]_vars
(* ---- C11 ---- *)
\* C11: successive next() calls on a fresh Counter return Some(1), Some(2),
\* Some(3), Some(4), Some(5) in that order and None from then on.
C11_NextSequence ==
  \A i \in DOMAIN returned :
    returned[i] = IF i <= 5 THEN Some(i) ELSE None

\* C11 witness: the six calls of calling_next_directly have been made
C11_Witness ==
  /\ pc = "counting"
  /\ returned = <<Some(1), Some(2), Some(3), Some(4), Some(5), None>>

(* ---- C12 ---- *)
\* C12: when the zip/skip/map/filter/sum pipeline has finished, the pairs it
\* saw are (1,2), (2,3), (3,4), (4,5) and the sum of the products divisible
\* by 3 is 18.
C12_ZipSum ==
  pc = "zip_done" =>
    /\ zip_pairs = << <<1, 2>>, <<2, 3>>, <<3, 4>>, <<4, 5>> >>
    /\ zip_sum = 18

\* C12 witness: the pipeline has run to its end over four pairs
C12_Witness ==
  /\ pc = "zip_done"
  /\ Len(zip_pairs) = 4
  /\ zip_b.iter.count = 5
(* ---- exact integers for the statements about i32 results ---- *)
\* An integer n is written [hi, lo] with n = hi * 65536 + lo and 0 <= lo < 65536,
\* so that sums of a few i32 values are represented without any overflow.
Exact(n) == [hi |-> n \div 65536, lo |-> n % 65536]

RECURSIVE SumHi(_)
SumHi(seq) == IF seq = << >> THEN 0 ELSE (Head(seq) \div 65536) + SumHi(Tail(seq))
RECURSIVE SumLo(_)
SumLo(seq) == IF seq = << >> THEN 0 ELSE (Head(seq) % 65536) + SumLo(Tail(seq))

\* the mathematical sum of a sequence of integers
ExactSum(seq) ==
  [hi |-> SumHi(seq) + (SumLo(seq) \div 65536), lo |-> SumLo(seq) % 65536]

\* -2^31 <= e <= 2^31 - 1
FitsI32(e) == e.hi >= 0 - 32768 /\ e.hi <= 32767

(* ---- C13 ---- *)
\* C13: after every add that returned, the average held by the collection
\* (and returned by get_average) is the sum of all added values divided by
\* their count.
C13_AverageInSync ==
  (pc = "averaging" /\ collection.list # << >>) =>
    /\ get_average(collection).kind = "fin"
    /\ get_average(collection).den = Len(collection.list)
    /\ Exact(get_average(collection).num) = ExactSum(collection.list)

(* ---- C14 ---- *)
\* C14: okadd(x, y) returns x + y for all i32 inputs whose sum fits in i32.
C14_OkaddAdds ==
  (pc = "okadd_done" /\ FitsI32(ExactSum(fn_args))) =>
    /\ ~fn_result.panic
    /\ fn_result.val = fn_args[1] + fn_args[2]
    /\ Exact(fn_result.val) = ExactSum(fn_args)

\* C14 witness: the call of test_okadd, okadd(1, 5) = 6
C14_Witness ==
  /\ pc = "okadd_done"
  /\ fn_args = <<1, 5>>
  /\ fn_result = Returned(6)

(* ---- C15 ---- *)
\* C15 as stated: crapadd(x, y) returns the number x + x for every x and y.
C15_CrapaddDoubles ==
  pc = "crapadd_done" =>
    /\ ~fn_result.panic
    /\ Exact(fn_result.val) = ExactSum(<<fn_args[1], fn_args[1]>>)

\* C15 amended: the outcome of crapadd(x, y) is determined by x alone: it is
\* x + x when that fits in i32; otherwise the call panics when overflow
\* checks are on and returns x + x wrapped modulo 2^32 when they are off.
C15_CrapaddIgnoresY ==
  pc = "crapadd_done" =>
    LET x == fn_args[1]
        e == ExactSum(<<x, x>>)
    IN IF FitsI32(e)
         THEN fn_result = Returned(x + x)
         ELSE IF overflow_checks
           THEN fn_result.panic
           ELSE /\ ~fn_result.panic
                /\ Exact(fn_result.val).lo = e.lo
                /\ Exact(fn_result.val).hi - e.hi \in {65536, 0 - 65536}

\* C15 witness: the call of test_crapadd, crapadd(1, 3) = 2 and not 4
C15_Witness ==
  /\ pc = "crapadd_done"
  /\ fn_args = <<1, 3>>
  /\ fn_result = Returned(2)
(* ---- C16 ---- *)
\* C16: after any sequence of clone() calls starting from
\* NaiveRcWithCell::new, every handle reports references() equal to the
\* number of handles created so far.
C16_CountsAllCorrect ==
  pc = "cloning" =>
    \A i \in DOMAIN handles : references(handles[i]) = Len(handles)

(* ---- C17 ---- *)
\* C17: in example_rc the strong count of a always equals the number of live
\* owners, and the printed counts are 1, 2, 3, 2: one more per Rc::clone, one
\* less when c goes out of scope.
C17_StrongCountIsOwners ==
  /\ rc_strong = Cardinality(rc_owners)
  /\ rc_printed = SubSeq(<<1, 2, 3, 2>>, 1, Len(rc_printed))
  /\ (pc \in {"rc_after_c", "rc_done"} => rc_printed = <<1, 2, 3, 2>>)

\* C17 witness: c has gone out of scope and the fourth count has been printed
C17_Witness ==
  /\ pc = "rc_after_c"
  /\ rc_owners = {"a", "b"}
  /\ rc_printed = <<1, 2, 3, 2>>
====
